---- MODULE Spec2Model ----
(***************************************************************************)
(* Model of AppDemonstrator (src/src/agent/app_demonstrator.py): the       *)
(* bring-up of a generated backend/frontend stack, its health probes, the  *)
(* retry loop with automatic fixes, the smoke test, the report and the     *)
(* cleanup of the launched processes.                                      *)
(*                                                                         *)
(* Texts (error messages, fix descriptions, URLs) are sequences of tokens; *)
(* Python's `sig in text` is containment of a contiguous token sequence,   *)
(* and text.split("'") cuts at the quote tokens.                           *)
(***************************************************************************)
EXTENDS Integers, Sequences, FiniteSets, TLC

VARIABLES
    pc,                 \* position of demonstrate's thread of control
    stage,              \* component of the stage in progress
    caller,             \* who called the stage function: "demonstrate" or "retry"
    attempt,            \* _retry_with_fixes: attempt
    last_error,         \* _retry_with_fixes: last_error
    errors_seen,        \* _retry_with_fixes: errors_seen
    backend_process,    \* self.backend_process (NoProcess is None)
    frontend_process,   \* self.frontend_process
    procs,              \* the OS processes launched so far: pid -> status
    probes,             \* probes made by the polling loop in progress (0 outside it)
    backend_port,       \* self.backend_port
    frontend_port,      \* self.frontend_port
    backend_url,        \* self.backend_url
    frontend_url,       \* self.frontend_url
    has_fix_attempts,   \* hasattr(self, '_fix_attempts')
    _fix_attempts,      \* self._fix_attempts
    api_results,        \* results of _verify_api_endpoints
    report_file,        \* content of demo_report.md (<<>> while not written)
    result,             \* what demonstrate returned
    \* history variables, read by the properties only
    iterations,         \* loop bodies executed by the current _retry_with_fixes call
    fixLog,             \* errors handed to _analyze_and_fix_error by the current call
    lastFix,            \* what the latest call of _analyze_and_fix_error returned
    retryResult,        \* what the latest call of _retry_with_fixes returned
    funcCalls,          \* calls of func made by the current _retry_with_fixes call
    opErrors,           \* messages of the failed calls of the stage function, this stage
    lastOutcome,        \* outcome of the latest probe of the start attempt in progress
    probeTarget,        \* URL requested by that probe
    slept,              \* whether time.sleep(1) was called after that probe
    attemptResult,      \* how the latest start attempt ended
    attempted,          \* stages begun
    failedStage,        \* stage that failed permanently
    cleanupCount,       \* executions of _cleanup
    cleanupRaised,      \* whether a termination call of _cleanup raised
    cleanupFailed,      \* the component whose termination raised ("none": nothing raised)
    faults              \* exceptions raised by the environment so far

vars == <<pc, stage, caller, attempt, last_error, errors_seen, backend_process,
          frontend_process, procs, probes, backend_port, frontend_port,
          backend_url, frontend_url, has_fix_attempts, _fix_attempts,
          api_results, report_file, result, iterations, fixLog, funcCalls,
          lastFix, retryResult, opErrors, lastOutcome, probeTarget, slept,
          attemptResult, attempted, failedStage, cleanupCount, cleanupRaised,
          cleanupFailed, faults>>

retryVars == <<attempt, last_error, errors_seen>>
retryHist == <<iterations, fixLog, funcCalls, opErrors, lastFix, retryResult>>
procVars  == <<backend_process, frontend_process, procs>>
pollVars  == <<probes, lastOutcome, probeTarget, slept, attemptResult>>
netVars   == <<backend_port, frontend_port, backend_url, frontend_url>>
fixVars   == <<has_fix_attempts, _fix_attempts>>
outVars   == <<api_results, report_file, result>>
cleanupVars == <<cleanupCount, cleanupRaised, cleanupFailed>>

-----------------------------------------------------------------------------
(* Bounds and program constants *)

\* Exceptions the environment raises in one run (failed installs, spawn
\* errors, unexpected exceptions of a probe or of a smoke-test request).
MaxFaults == 2

\* Calls of _cleanup in all, the one of demonstrate's finally clause included,
\* when a client goes on calling it after demonstrate has returned.
MaxCleanupCalls == 2

max_attempts == 5
BackendProbeCap == 30
FrontendProbeCap == 60
InitialBackendPort == 5000
InitialFrontendPort == 3000

NoProcess == 0

Components == {"dependencies", "backend", "frontend"}

-----------------------------------------------------------------------------
(* Texts *)

Quote == "'"

Min(S) == CHOOSE m \in S : \A n \in S : m <= n

\* Python: sig in text
Contains(sig, text) ==
    \E i \in 1..(Len(text) - Len(sig) + 1) : SubSeq(text, i, i + Len(sig) - 1) = sig

\* Python: text.lower()
LowerToken(t) ==
    CASE t = "Command" -> "command"
      [] t = "Failed to install dependencies:" -> "failed to install dependencies:"
      [] t = "NPM" -> "npm"
      [] OTHER -> t

lower(text) == [i \in 1..Len(text) |-> LowerToken(text[i])]

\* Python: text.split("'")[1]; raises IndexError when the text holds no quote
QuotePositions(text) == {i \in 1..Len(text) : text[i] = Quote}

SplitHasIndex1(text) == QuotePositions(text) # {}

SplitIndex1(text) ==
    LET q1    == Min(QuotePositions(text))
        later == {i \in QuotePositions(text) : i > q1}
        end   == IF later = {} THEN Len(text) + 1 ELSE Min(later)
    IN SubSeq(text, q1 + 1, end - 1)

\* f"http://localhost:{port}"
LocalUrl(port) == <<"http://localhost:", ToString(port)>>

\* str(e) of the exceptions the environment raises in a start attempt
ExcNoFlask        == <<"No module named", Quote, "flask", Quote>>
ExcModuleAndAddr  == <<"ModuleNotFoundError", ":", "No module named", Quote, "jwt", Quote,
                       ";", "Address already in use">>
ExcModuleNoQuote  == <<"ModuleNotFoundError", ":", "import failed">>
ExcAddrInUse      == <<"[Errno 98]", "Address already in use">>
ExcSQLAlchemy     == <<"SQLAlchemy", "could not connect">>
ExcNoSuchFile     == <<"[Errno 2]", "No such file or directory">>
ExcNoPackageJson  == <<"ENOENT", ":", "no such file", "package.json">>
ExcReactScripts   == <<"react-scripts", ":", "command not found">>
ExcEADDRINUSE     == <<"EADDRINUSE", ":", "port in use">>

BackendExceptions  == {ExcNoFlask, ExcModuleAndAddr, ExcModuleNoQuote, ExcAddrInUse,
                       ExcSQLAlchemy, ExcNoSuchFile}
FrontendExceptions == {ExcNoPackageJson, ExcReactScripts, ExcEADDRINUSE, ExcAddrInUse,
                       ExcNoSuchFile}

\* str(e) of the CalledProcessError of the two install commands
ExcPipInstall == <<"Command", Quote, "[", "python", "-m", "pip", "install", "-r",
                   "requirements.txt", "]", Quote, "returned non-zero exit status", "1">>
ExcNpmInstall == <<"Command", Quote, "[", "npm", "install", "]", Quote,
                   "returned non-zero exit status", "1">>

InstallExceptions == {ExcPipInstall, ExcNpmInstall}

StartExceptions(component) ==
    IF component = "backend" THEN BackendExceptions ELSE FrontendExceptions

\* ProbeCap with one iteration too many
ProbeCapOneMore(component) ==
    IF component = "backend" THEN BackendProbeCap + 1 ELSE FrontendProbeCap + 1

\* range(30) in _start_backend, range(60) in _start_frontend
ProbeCap(component) ==
    IF component = "backend" THEN BackendProbeCap ELSE FrontendProbeCap

-----------------------------------------------------------------------------
(* The remediator.  A fix function returns the pair (fixed, message) and   *)
(* the values it leaves in the ports, the URLs and the ledger.             *)
(* installerOk: whether the commands the fix runs (subprocess.run with     *)
(* check=True, the write of package.json) complete without raising.        *)

EmptyAttempts == [backend |-> <<>>, frontend |-> <<>>, dependencies |-> <<>>]

\* if not hasattr(self, '_fix_attempts'): self._fix_attempts = {...}
InitializedAttempts == IF has_fix_attempts THEN _fix_attempts ELSE EmptyAttempts

FixResult(fixed, message, bport, burl, fport, furl, has, entries) ==
    [fixed |-> fixed, message |-> message,
     backend_port |-> bport, backend_url |-> burl,
     frontend_port |-> fport, frontend_url |-> furl,
     has_fix_attempts |-> has, entries |-> entries]

\* NotFixed leaving the message in the backend's list of the ledger
NotFixedLogged(message) ==
    FixResult(FALSE, message, backend_port, backend_url, frontend_port, frontend_url,
              TRUE, [InitializedAttempts EXCEPT
                         !.backend = Append(InitializedAttempts.backend, message)])

\* return False, message (from a fix function: _fix_attempts is initialized)
NotFixed(message) ==
    FixResult(FALSE, message, backend_port, backend_url, frontend_port, frontend_url,
              TRUE, InitializedAttempts)

\* Applied replacing the component's list by the new entry
AppliedOverwriting(component, fix_applied, bport, burl, fport, furl) ==
    FixResult(TRUE, fix_applied, bport, burl, fport, furl, TRUE,
              [InitializedAttempts EXCEPT ![component] = <<fix_applied>>])

\* self._fix_attempts[component].append(fix_applied); return True, fix_applied
Applied(component, fix_applied, bport, burl, fport, furl) ==
    FixResult(TRUE, fix_applied, bport, burl, fport, furl, TRUE,
              [InitializedAttempts EXCEPT
                   ![component] = Append(InitializedAttempts[component], fix_applied)])

\* AppliedInstall moving the frontend port along with the installation
AppliedInstallMovingPort(component, fix_applied) ==
    Applied(component, fix_applied, backend_port, backend_url,
            frontend_port + 1, <<"http://localhost:", ToString(frontend_port + 1)>>)

\* a fix that leaves the ports and the URLs alone
AppliedInstall(component, fix_applied) ==
    Applied(component, fix_applied, backend_port, backend_url, frontend_port, frontend_url)

\* BackendSignature with the first two tests in the other order
BackendSignatureAddrFirst(error) ==
    IF Contains(<<"Address already in use">>, error) THEN "AddressInUse"
    ELSE IF Contains(<<"ModuleNotFoundError">>, error) THEN "ModuleNotFoundError"
    ELSE IF Contains(<<"No module named", Quote, "flask", Quote>>, error) THEN "NoFlask"
    ELSE IF Contains(<<"SQLAlchemy">>, error) THEN "SQLAlchemy"
    ELSE "none"

\* BackendSignature taking every error that matches nothing for a database error
BackendSignatureCatchAll(error) ==
    IF Contains(<<"ModuleNotFoundError">>, error) THEN "ModuleNotFoundError"
    ELSE IF Contains(<<"Address already in use">>, error) THEN "AddressInUse"
    ELSE IF Contains(<<"No module named", Quote, "flask", Quote>>, error) THEN "NoFlask"
    ELSE "SQLAlchemy"

\* BackendSignature with a first test that matches every "No module named"
BackendSignatureLoose(error) ==
    IF Contains(<<"ModuleNotFoundError">>, error) \/ Contains(<<"No module named">>, error)
        THEN "ModuleNotFoundError"
    ELSE IF Contains(<<"Address already in use">>, error) THEN "AddressInUse"
    ELSE IF Contains(<<"No module named", Quote, "flask", Quote>>, error) THEN "NoFlask"
    ELSE IF Contains(<<"SQLAlchemy">>, error) THEN "SQLAlchemy"
    ELSE "none"

\* The signature an error selects: the if/elif chains, first match wins.
BackendSignature(error) ==
    IF Contains(<<"ModuleNotFoundError">>, error) THEN "ModuleNotFoundError"
    ELSE IF Contains(<<"Address already in use">>, error) THEN "AddressInUse"
    ELSE IF Contains(<<"No module named", Quote, "flask", Quote>>, error) THEN "NoFlask"
    ELSE IF Contains(<<"SQLAlchemy">>, error) THEN "SQLAlchemy"
    ELSE "none"

\* FrontendSignature with the backend's port-conflict text in the third test
FrontendSignatureAddrPhrase(error) ==
    IF Contains(<<"ENOENT">>, error) /\ Contains(<<"package.json">>, error)
        THEN "NoPackageJson"
    ELSE IF Contains(<<"react-scripts">>, error) THEN "ReactScripts"
    ELSE IF Contains(<<"Address already in use">>, error) THEN "AddressInUse"
    ELSE "none"

FrontendSignature(error) ==
    IF Contains(<<"ENOENT">>, error) /\ Contains(<<"package.json">>, error)
        THEN "NoPackageJson"
    ELSE IF Contains(<<"react-scripts">>, error) THEN "ReactScripts"
    ELSE IF Contains(<<"EADDRINUSE">>, error) THEN "AddressInUse"
    ELSE "none"

DependencySignature(error) ==
    IF Contains(<<"npm">>, lower(error)) THEN "npm"
    ELSE IF Contains(<<"python">>, lower(error)) \/ Contains(<<"pip">>, lower(error))
        THEN "pip"
    ELSE "none"

_fix_backend_error(error, installerOk) ==
    LET sig == BackendSignature(error) IN
    CASE sig = "ModuleNotFoundError" ->
            IF ~SplitHasIndex1(error) THEN NotFixed(<<"Backend fix failed:", "IndexError">>)
            ELSE IF ~installerOk
                THEN NotFixed(<<"Backend fix failed:", "CalledProcessError">>)
            ELSE AppliedInstall("backend",
                                <<"Installed missing module:">> \o SplitIndex1(error))
      [] sig = "AddressInUse" ->
            Applied("backend", <<"Changed backend port to", ToString(backend_port + 1)>>,
                    backend_port + 1, LocalUrl(backend_port + 1),
                    frontend_port, frontend_url)
      [] sig = "NoFlask" ->
            IF ~installerOk THEN NotFixed(<<"Backend fix failed:", "CalledProcessError">>)
            ELSE AppliedInstall("backend", <<"Installed Flask">>)
      [] sig = "SQLAlchemy" ->
            IF ~installerOk THEN NotFixed(<<"Backend fix failed:", "CalledProcessError">>)
            ELSE AppliedInstall("backend", <<"Installed database dependencies">>)
      [] OTHER -> NotFixed(<<"Unable to automatically fix this backend error">>)

\* _fix_frontend_error whose port change leaves the URL as it was
_fix_frontend_error_StaleUrl(error, installerOk) ==
    LET sig == FrontendSignature(error) IN
    CASE sig = "NoPackageJson" ->
            IF ~installerOk THEN NotFixed(<<"Frontend fix failed:", "OSError">>)
            ELSE AppliedInstall("frontend", <<"Created basic package.json">>)
      [] sig = "ReactScripts" ->
            IF ~installerOk THEN NotFixed(<<"Frontend fix failed:", "CalledProcessError">>)
            ELSE AppliedInstall("frontend", <<"Installed react-scripts">>)
      [] sig = "AddressInUse" ->
            Applied("frontend", <<"Changed frontend port to", ToString(frontend_port + 1)>>,
                    backend_port, backend_url, frontend_port + 1, frontend_url)
      [] OTHER -> NotFixed(<<"Unable to automatically fix this frontend error">>)

_fix_frontend_error(error, installerOk) ==
    LET sig == FrontendSignature(error) IN
    CASE sig = "NoPackageJson" ->
            IF ~installerOk THEN NotFixed(<<"Frontend fix failed:", "OSError">>)
            ELSE AppliedInstall("frontend", <<"Created basic package.json">>)
      [] sig = "ReactScripts" ->
            IF ~installerOk THEN NotFixed(<<"Frontend fix failed:", "CalledProcessError">>)
            ELSE AppliedInstall("frontend", <<"Installed react-scripts">>)
      [] sig = "AddressInUse" ->
            Applied("frontend", <<"Changed frontend port to", ToString(frontend_port + 1)>>,
                    backend_port, backend_url,
                    frontend_port + 1, LocalUrl(frontend_port + 1))
      [] OTHER -> NotFixed(<<"Unable to automatically fix this frontend error">>)

_fix_dependency_error(error, installerOk) ==
    LET sig == DependencySignature(error) IN
    CASE sig = "npm" ->
            IF ~installerOk THEN NotFixed(<<"Dependency fix failed:", "CalledProcessError">>)
            ELSE AppliedInstall("dependencies", <<"Updated npm installation">>)
      [] sig = "pip" ->
            IF ~installerOk THEN NotFixed(<<"Dependency fix failed:", "CalledProcessError">>)
            ELSE AppliedInstall("dependencies", <<"Updated pip installation">>)
      [] OTHER -> NotFixed(<<"Unable to automatically fix this dependency error">>)

_analyze_and_fix_error(error, component, installerOk) ==
    CASE component = "backend" -> _fix_backend_error(error, installerOk)
      [] component = "frontend" -> _fix_frontend_error(error, installerOk)
      [] component = "dependencies" -> _fix_dependency_error(error, installerOk)
      [] OTHER -> FixResult(FALSE, <<"Unknown component:", component>>,
                            backend_port, backend_url, frontend_port, frontend_url,
                            has_fix_attempts, _fix_attempts)

-----------------------------------------------------------------------------
(* The initial state: AppDemonstrator.__init__, demonstrate about to start *)

NoResult == [returned |-> FALSE, success |-> FALSE, message |-> <<>>,
             report_is_none |-> TRUE, report |-> <<>>]

\* no call of _analyze_and_fix_error yet in this _retry_with_fixes call
NoFix == [called |-> FALSE, fixed |-> FALSE, message |-> <<>>]

\* the _retry_with_fixes call has not returned
NoRetryResult == [returned |-> FALSE, success |-> FALSE, message |-> <<>>]

Init ==
    /\ pc = "install"
    /\ stage = "dependencies"
    /\ caller = "demonstrate"
    /\ attempt = 1
    /\ last_error = <<>>
    /\ errors_seen = {}
    /\ backend_process = NoProcess
    /\ frontend_process = NoProcess
    /\ procs = <<>>
    /\ probes = 0
    /\ backend_port = InitialBackendPort
    /\ frontend_port = InitialFrontendPort
    /\ backend_url = LocalUrl(InitialBackendPort)
    /\ frontend_url = LocalUrl(InitialFrontendPort)
    /\ has_fix_attempts = FALSE
    /\ _fix_attempts = EmptyAttempts
    /\ api_results = <<>>
    /\ report_file = <<>>
    /\ result = NoResult
    /\ iterations = 0
    /\ fixLog = <<>>
    /\ funcCalls = 0
    /\ opErrors = <<>>
    /\ lastFix = NoFix
    /\ retryResult = NoRetryResult
    /\ lastOutcome = "none"
    /\ probeTarget = <<>>
    /\ slept = FALSE
    /\ attemptResult = "none"
    /\ attempted = {"dependencies"}
    /\ failedStage = "none"
    /\ cleanupCount = 0
    /\ cleanupRaised = FALSE
    /\ cleanupFailed = "none"
    /\ faults = 0

-----------------------------------------------------------------------------
(* Control flow of demonstrate around a stage function *)

ctrlVars == <<pc, stage, caller, attempted, result, failedStage>>

\* the stage succeeded: demonstrate goes on to the next stage
StageSucceeded ==
    /\ caller' = "demonstrate"
    /\ UNCHANGED <<result, failedStage>>
    /\ CASE stage = "dependencies" ->
                /\ stage' = "backend"
                /\ pc' = "start"
                /\ attempted' = attempted \cup {"backend"}
         [] stage = "backend" ->
                /\ stage' = "frontend"
                /\ pc' = "start"
                /\ attempted' = attempted \cup {"frontend"}
         [] OTHER ->
                /\ stage' = stage
                /\ pc' = "verify"
                /\ attempted' = attempted \cup {"verify"}

\* StageFailed with the early return forgotten: demonstrate goes on
StageFailedGoesOn(message) ==
    /\ failedStage' = stage
    /\ caller' = "demonstrate"
    /\ UNCHANGED result
    /\ CASE stage = "dependencies" ->
                /\ stage' = "backend"
                /\ pc' = "start"
                /\ attempted' = attempted \cup {"backend"}
         [] stage = "backend" ->
                /\ stage' = "frontend"
                /\ pc' = "start"
                /\ attempted' = attempted \cup {"frontend"}
         [] OTHER ->
                /\ stage' = stage
                /\ pc' = "verify"
                /\ attempted' = attempted \cup {"verify"}

\* StageFailed returning a report text in place of None
StageFailedWithReport(message) ==
    /\ pc' = "finally"
    /\ result' = [returned |-> FALSE, success |-> FALSE, message |-> message,
                  report_is_none |-> FALSE, report |-> << message >>]
    /\ failedStage' = stage
    /\ UNCHANGED <<stage, caller, attempted>>

\* return False, message, None  (after _retry_with_fixes reported failure)
StageFailed(message) ==
    /\ pc' = "finally"
    /\ result' = [returned |-> FALSE, success |-> FALSE, message |-> message,
                  report_is_none |-> TRUE, report |-> <<>>]
    /\ failedStage' = stage
    /\ UNCHANGED <<stage, caller, attempted>>

\* Raise without the finally clause: demonstrate returns at once
RaiseSkippingFinally(e) ==
    /\ pc' = "done"
    /\ result' = [returned |-> TRUE, success |-> FALSE,
                  message |-> <<"Demonstration failed:">> \o e,
                  report_is_none |-> TRUE, report |-> <<>>]
    /\ UNCHANGED <<stage, caller, attempted, failedStage>>

\* Raise handing the exception's own text on, without the wrapping
RaiseUnwrapped(e) ==
    /\ pc' = "finally"
    /\ result' = [returned |-> FALSE, success |-> FALSE,
                  message |-> e,
                  report_is_none |-> TRUE, report |-> <<>>]
    /\ UNCHANGED <<stage, caller, attempted, failedStage>>

\* except Exception as e: return False, f"Demonstration failed: {str(e)}", None
\* (the finally clause runs before demonstrate returns)
Raise(e) ==
    /\ pc' = "finally"
    /\ result' = [returned |-> FALSE, success |-> FALSE,
                  message |-> <<"Demonstration failed:">> \o e,
                  report_is_none |-> TRUE, report |-> <<>>]
    /\ UNCHANGED <<stage, caller, attempted, failedStage>>

\* The stage function returns (success, message) to the code that called it:
\* demonstrate (first call of the stage) or _retry_with_fixes (func()).
FuncReturn(success, message) ==
    IF success
    THEN \* demonstrate goes on; from _retry_with_fixes: return True, new_message
         /\ StageSucceeded
         /\ retryResult' = IF caller = "retry"
                            THEN [returned |-> TRUE, success |-> TRUE, message |-> message]
                            ELSE retryResult
         /\ UNCHANGED <<retryVars, iterations, fixLog, funcCalls, opErrors, lastFix>>
    ELSE IF caller = "demonstrate"
    THEN \* demonstrate calls _retry_with_fixes(operation, message, component, func)
         /\ pc' = "retry"
         /\ caller' = "retry"
         /\ attempt' = 1
         /\ last_error' = message
         /\ errors_seen' = {}
         /\ iterations' = 0
         /\ fixLog' = <<>>
         /\ funcCalls' = 0
         /\ opErrors' = <<message>>
         /\ lastFix' = NoFix
         /\ retryResult' = NoRetryResult
         /\ UNCHANGED <<stage, attempted, result, failedStage>>
    ELSE \* last_error = new_message
         /\ pc' = "retry"
         /\ last_error' = message
         /\ opErrors' = Append(opErrors, message)
         /\ UNCHANGED <<stage, caller, attempted, result, failedStage>>
         /\ UNCHANGED <<attempt, errors_seen, iterations, fixLog, funcCalls, lastFix,
                         retryResult>>

-----------------------------------------------------------------------------
(* _install_dependencies *)

_install_dependencies ==
    /\ pc = "install"
    /\ \/ \* both installs succeed (or there is nothing to install)
          /\ FuncReturn(TRUE, <<"Dependencies installed successfully">>)
          /\ UNCHANGED faults
       \/ \* subprocess.CalledProcessError
          /\ faults < MaxFaults
          /\ faults' = faults + 1
          /\ \E e \in InstallExceptions :
                FuncReturn(FALSE, <<"Failed to install dependencies:">> \o e)
       \/ \* any other exception (npm is not installed) leaves the function
          /\ faults < MaxFaults
          /\ faults' = faults + 1
          /\ Raise(<<"[Errno 2]", "No such file or directory", ":", "npm">>)
          /\ UNCHANGED <<retryVars, retryHist>>
    /\ UNCHANGED <<procVars, pollVars, netVars, fixVars, api_results, report_file,
                   cleanupVars>>

-----------------------------------------------------------------------------
(* _start_backend and _start_frontend *)

StartFailedPrefix(component) ==
    IF component = "backend" THEN <<"Failed to start backend:">>
    ELSE <<"Failed to start frontend:">>

StartedMessage(component) ==
    IF component = "backend" THEN <<"Backend started successfully">>
    ELSE <<"Frontend started successfully">>

TimeoutMessage(component) ==
    IF component = "backend" THEN <<"Backend failed to start within timeout">>
    ELSE <<"Frontend failed to start within timeout">>

CurrentProcess(component) ==
    IF component = "backend" THEN backend_process ELSE frontend_process

\* the URL of a probe: f"{self.backend_url}/health", self.frontend_url
ProbeUrl(component) ==
    IF component = "backend" THEN backend_url \o <<"/health">> ELSE frontend_url

\* Launch of a component whatever the stage in progress
LaunchAnyStage(component) ==
    /\ pc = "start"
    /\ probes' = 0
    /\ lastOutcome' = "none"
    /\ slept' = FALSE
    /\ probeTarget' = <<>>
    /\ \/ /\ procs' = Append(procs, "running")
          /\ IF component = "backend"
             THEN backend_process' = Len(procs) + 1 /\ UNCHANGED frontend_process
             ELSE frontend_process' = Len(procs) + 1 /\ UNCHANGED backend_process
          /\ pc' = "poll"
          /\ attemptResult' = "pending"
          /\ UNCHANGED <<stage, caller, attempted, result, failedStage>>
          /\ UNCHANGED <<retryVars, retryHist, faults>>
       \/ /\ faults < MaxFaults
          /\ faults' = faults + 1
          /\ attemptResult' = "error"
          /\ \E e \in StartExceptions(component) :
                FuncReturn(FALSE, StartFailedPrefix(component) \o e)
          /\ UNCHANGED procVars
    /\ UNCHANGED <<netVars, fixVars, api_results, report_file, cleanupVars>>

\* Launch with an exception of Popen ending the stage at once
LaunchSpawnFatal(component) ==
    /\ pc = "start"
    /\ stage = component
    /\ probes' = 0
    /\ lastOutcome' = "none"
    /\ slept' = FALSE
    /\ probeTarget' = <<>>
    /\ \/ /\ procs' = Append(procs, "running")
          /\ IF component = "backend"
             THEN backend_process' = Len(procs) + 1 /\ UNCHANGED frontend_process
             ELSE frontend_process' = Len(procs) + 1 /\ UNCHANGED backend_process
          /\ pc' = "poll"
          /\ attemptResult' = "pending"
          /\ UNCHANGED <<stage, caller, attempted, result, failedStage>>
          /\ UNCHANGED <<retryVars, retryHist, faults>>
       \/ /\ faults < MaxFaults
          /\ faults' = faults + 1
          /\ attemptResult' = "error"
          /\ \E e \in StartExceptions(component) :
                StageFailed(StartFailedPrefix(component) \o e)
          /\ UNCHANGED <<retryVars, retryHist>>
          /\ UNCHANGED procVars
    /\ UNCHANGED <<netVars, fixVars, api_results, report_file, cleanupVars>>

\* subprocess.Popen(...)
Launch(component) ==
    /\ pc = "start"
    /\ stage = component
    /\ probes' = 0
    /\ lastOutcome' = "none"
    /\ slept' = FALSE
    /\ probeTarget' = <<>>
    /\ \/ \* the process is created and the polling loop is entered
          /\ procs' = Append(procs, "running")
          /\ IF component = "backend"
             THEN backend_process' = Len(procs) + 1 /\ UNCHANGED frontend_process
             ELSE frontend_process' = Len(procs) + 1 /\ UNCHANGED backend_process
          /\ pc' = "poll"
          /\ attemptResult' = "pending"
          /\ UNCHANGED <<stage, caller, attempted, result, failedStage>>
          /\ UNCHANGED <<retryVars, retryHist, faults>>
       \/ \* Popen raises: except Exception as e
          /\ faults < MaxFaults
          /\ faults' = faults + 1
          /\ attemptResult' = "error"
          /\ \E e \in StartExceptions(component) :
                FuncReturn(FALSE, StartFailedPrefix(component) \o e)
          /\ UNCHANGED procVars
    /\ UNCHANGED <<netVars, fixVars, api_results, report_file, cleanupVars>>

\* IsReady accepting every status that is not a server error
IsReadyBelow500(status) == status < 500

\* the status a response must have for the service to count as ready
IsReady(status) == status = 200

ProbeStatuses == {200, 404}

\* one iteration of the polling loop: requests.get(url)
Probe(component) ==
    /\ pc = "poll"
    /\ stage = component
    /\ probes < ProbeCap(component)
    /\ probeTarget' = ProbeUrl(component)
    /\ \/ \* a response
          \E status \in ProbeStatuses :
             /\ lastOutcome' = ToString(status)
             /\ slept' = FALSE
             /\ IF IsReady(status)
                THEN /\ attemptResult' = "ready"
                     /\ probes' = 0
                     /\ FuncReturn(TRUE, StartedMessage(component))
                ELSE /\ probes' = probes + 1
                     /\ UNCHANGED <<attemptResult, ctrlVars, retryVars, retryHist>>
             /\ UNCHANGED faults
       \/ \* requests.RequestException: time.sleep(1)
          /\ lastOutcome' = "neterr"
          /\ slept' = TRUE
          /\ probes' = probes + 1
          /\ UNCHANGED <<attemptResult, ctrlVars, retryVars, retryHist, faults>>
       \/ \* any other exception: except Exception as e
          /\ faults < MaxFaults
          /\ faults' = faults + 1
          /\ lastOutcome' = "exception"
          /\ slept' = FALSE
          /\ attemptResult' = "error"
          /\ probes' = 0
          /\ \E e \in StartExceptions(component) :
                FuncReturn(FALSE, StartFailedPrefix(component) \o e)
    /\ UNCHANGED <<procVars, netVars, fixVars, api_results, report_file, cleanupVars>>

\* the polling loop ran out: return False, "... failed to start within timeout"
StartTimeout(component) ==
    /\ pc = "poll"
    /\ stage = component
    /\ probes >= ProbeCap(component)
    /\ attemptResult' = "timeout"
    /\ FuncReturn(FALSE, TimeoutMessage(component))
    /\ probes' = 0
    /\ UNCHANGED <<lastOutcome, probeTarget, slept, faults>>
    /\ UNCHANGED <<procVars, netVars, fixVars, api_results, report_file, cleanupVars>>

_start_backend == Launch("backend") \/ Probe("backend") \/ StartTimeout("backend")

_start_frontend == Launch("frontend") \/ Probe("frontend") \/ StartTimeout("frontend")

\* A launched process exits by itself.  The program looks at a process only
\* in _cleanup, so an exit at any earlier moment is the same as one right
\* before _cleanup.
ProcessExits ==
    /\ pc = "finally"
    /\ \E p \in 1..Len(procs) :
          /\ procs[p] = "running"
          /\ procs' = [procs EXCEPT ![p] = "exited"]
    /\ UNCHANGED <<backend_process, frontend_process>>
    /\ UNCHANGED <<ctrlVars, retryVars, retryHist, pollVars, netVars, fixVars,
                   api_results, report_file, cleanupVars, faults>>

-----------------------------------------------------------------------------
(* _retry_with_fixes: one action per way through the body of the while loop *)

\* AlreadySeen with the check of errors_seen lost
AlreadySeenNever(error) == FALSE

\* if last_error in errors_seen
AlreadySeen(error) == error \in errors_seen

\* the stage function func() is called again
FuncPc == IF stage = "dependencies" THEN "install" ELSE "start"

\* AttemptAfterFix counting the retried call as an attempt of its own
AttemptAfterFixCounted(n) == n + 1

\* the attempt counter after a fix was applied and func() failed again
AttemptAfterFix(n) == n


\* ExhaustedMessage carrying the error the session started with
ExhaustedMessageInitialError ==
    <<"Failed to fix", stage, "after", ToString(max_attempts), "attempts. Last error:">>
    \o opErrors[1]

\* f"Failed to fix {component} after {max_attempts} attempts. Last error: {last_error}"
ExhaustedMessage ==
    <<"Failed to fix", stage, "after", ToString(max_attempts), "attempts. Last error:">>
    \o last_error

\* while attempt <= max_attempts is false: return False, f"Failed to fix ..."
RetryExhausted ==
    /\ pc = "retry"
    /\ attempt > max_attempts
    /\ StageFailed(ExhaustedMessage)
    /\ retryResult' = [returned |-> TRUE, success |-> FALSE, message |-> ExhaustedMessage]
    /\ UNCHANGED <<iterations, fixLog, funcCalls, opErrors, lastFix>>
    /\ UNCHANGED <<retryVars, procVars, pollVars, netVars, fixVars,
                   api_results, report_file, cleanupVars, faults>>

\* RetryDuplicate leaving the attempt counter alone
RetryDuplicateSpins ==
    /\ pc = "retry"
    /\ attempt <= max_attempts
    /\ AlreadySeen(last_error)
    /\ attempt' = attempt
    /\ iterations' = iterations + 1
    /\ UNCHANGED <<last_error, errors_seen, fixLog, funcCalls, opErrors, lastFix,
                   retryResult>>
    /\ UNCHANGED <<ctrlVars, procVars, pollVars, netVars, fixVars,
                   api_results, report_file, cleanupVars, faults>>

\* the error was seen before: attempt += 1; continue
RetryDuplicate ==
    /\ pc = "retry"
    /\ attempt <= max_attempts
    /\ AlreadySeen(last_error)
    /\ attempt' = attempt + 1
    /\ iterations' = iterations + 1
    /\ UNCHANGED <<last_error, errors_seen, fixLog, funcCalls, opErrors, lastFix,
                   retryResult>>
    /\ UNCHANGED <<ctrlVars, procVars, pollVars, netVars, fixVars,
                   api_results, report_file, cleanupVars, faults>>

\* RetryFix calling func() again even when nothing was fixed
RetryFixRetriesAnyway ==
    /\ pc = "retry"
    /\ attempt <= max_attempts
    /\ ~AlreadySeen(last_error)
    /\ errors_seen' = errors_seen \cup {last_error}
    /\ fixLog' = Append(fixLog, last_error)
    /\ iterations' = iterations + 1
    /\ \E installerOk \in BOOLEAN :
          LET r == _analyze_and_fix_error(last_error, stage, installerOk) IN
          /\ backend_port' = r.backend_port
          /\ backend_url' = r.backend_url
          /\ frontend_port' = r.frontend_port
          /\ frontend_url' = r.frontend_url
          /\ has_fix_attempts' = r.has_fix_attempts
          /\ _fix_attempts' = r.entries
          /\ lastFix' = [called |-> TRUE, fixed |-> r.fixed, message |-> r.message]
          /\ IF r.fixed
             THEN /\ pc' = FuncPc
                  /\ funcCalls' = funcCalls + 1
                  /\ attempt' = AttemptAfterFix(attempt)
             ELSE /\ attempt' = attempt + 1
                  /\ pc' = FuncPc
                  /\ funcCalls' = funcCalls + 1
    /\ UNCHANGED <<last_error, opErrors, retryResult>>
    /\ UNCHANGED <<stage, caller, attempted, result, failedStage>>
    /\ UNCHANGED <<procVars, pollVars, api_results, report_file, cleanupVars, faults>>

\* RetryFix recording in errors_seen only the errors whose fix was applied
RetryFixForgetsUnfixed ==
    /\ pc = "retry"
    /\ attempt <= max_attempts
    /\ ~AlreadySeen(last_error)
    /\ fixLog' = Append(fixLog, last_error)
    /\ iterations' = iterations + 1
    /\ \E installerOk \in BOOLEAN :
          LET r == _analyze_and_fix_error(last_error, stage, installerOk) IN
          /\ backend_port' = r.backend_port
          /\ backend_url' = r.backend_url
          /\ frontend_port' = r.frontend_port
          /\ frontend_url' = r.frontend_url
          /\ has_fix_attempts' = r.has_fix_attempts
          /\ _fix_attempts' = r.entries
          /\ lastFix' = [called |-> TRUE, fixed |-> r.fixed, message |-> r.message]
          /\ errors_seen' = IF r.fixed THEN errors_seen \cup {last_error} ELSE errors_seen
          /\ IF r.fixed
             THEN /\ pc' = FuncPc
                  /\ funcCalls' = funcCalls + 1
                  /\ attempt' = AttemptAfterFix(attempt)
             ELSE /\ attempt' = attempt + 1
                  /\ UNCHANGED <<pc, funcCalls>>
    /\ UNCHANGED <<last_error, opErrors, retryResult>>
    /\ UNCHANGED <<stage, caller, attempted, result, failedStage>>
    /\ UNCHANGED <<procVars, pollVars, api_results, report_file, cleanupVars, faults>>

\* a new error: it is recorded and handed to _analyze_and_fix_error; when the
\* fix is applied func() is called, otherwise attempt += 1
RetryFix ==
    /\ pc = "retry"
    /\ attempt <= max_attempts
    /\ ~AlreadySeen(last_error)
    /\ errors_seen' = errors_seen \cup {last_error}
    /\ fixLog' = Append(fixLog, last_error)
    /\ iterations' = iterations + 1
    /\ \E installerOk \in BOOLEAN :
          LET r == _analyze_and_fix_error(last_error, stage, installerOk) IN
          /\ backend_port' = r.backend_port
          /\ backend_url' = r.backend_url
          /\ frontend_port' = r.frontend_port
          /\ frontend_url' = r.frontend_url
          /\ has_fix_attempts' = r.has_fix_attempts
          /\ _fix_attempts' = r.entries
          /\ lastFix' = [called |-> TRUE, fixed |-> r.fixed, message |-> r.message]
          /\ IF r.fixed
             THEN /\ pc' = FuncPc
                  /\ funcCalls' = funcCalls + 1
                  /\ attempt' = AttemptAfterFix(attempt)
             ELSE /\ attempt' = attempt + 1
                  /\ UNCHANGED <<pc, funcCalls>>
    /\ UNCHANGED <<last_error, opErrors, retryResult>>
    /\ UNCHANGED <<stage, caller, attempted, result, failedStage>>
    /\ UNCHANGED <<procVars, pollVars, api_results, report_file, cleanupVars, faults>>

_retry_with_fixes == RetryExhausted \/ RetryDuplicate \/ RetryFix

-----------------------------------------------------------------------------
(* _verify_api_endpoints: one request per step *)

endpoints == << [endpoint |-> "/api/health",         method |-> "GET"],
                [endpoint |-> "/api/auth/register",  method |-> "POST"],
                [endpoint |-> "/api/auth/login",     method |-> "POST"],
                [endpoint |-> "/api/users/profile",  method |-> "GET"] >>

Absent == "N/A"

SmokeStatuses == {200, 404, 500}

\* a response other than 200 is counted with the environment's faults
SmokeFault(status) == IF status = 200 THEN 0 ELSE 1

\* _verify_api_endpoints giving up at the first request that fails
_verify_api_endpoints_StopOnFailure ==
    /\ pc = "verify"
    /\ Len(api_results) < Len(endpoints)
    /\ LET e == endpoints[Len(api_results) + 1] IN
       \/ /\ \E status \in SmokeStatuses :
                /\ faults + SmokeFault(status) <= MaxFaults
                /\ faults' = faults + SmokeFault(status)
                /\ api_results' = Append(api_results,
                    [endpoint |-> e.endpoint, method |-> e.method,
                     status |-> IF status < 500 THEN "Success" ELSE "Failed",
                     status_code |-> ToString(status), error |-> Absent])
          /\ pc' = IF Len(api_results) + 1 = Len(endpoints) THEN "report" ELSE "verify"
          /\ UNCHANGED <<stage, caller, attempted, result, failedStage>>
       \/ /\ faults < MaxFaults
          /\ faults' = faults + 1
          /\ api_results' = Append(api_results,
                    [endpoint |-> e.endpoint, method |-> e.method, status |-> "Failed",
                     status_code |-> Absent, error |-> "RequestException"])
          /\ pc' = "report"
          /\ UNCHANGED <<stage, caller, attempted, result, failedStage>>
       \/ /\ faults < MaxFaults
          /\ faults' = faults + 1
          /\ Raise(<<"unexpected error in request">>)
          /\ UNCHANGED api_results
    /\ UNCHANGED <<retryVars, retryHist, procVars, pollVars, netVars, fixVars,
                   report_file, cleanupVars>>

_verify_api_endpoints ==
    /\ pc = "verify"
    /\ Len(api_results) < Len(endpoints)
    /\ LET e == endpoints[Len(api_results) + 1] IN
       \/ \* a response
          /\ \E status \in SmokeStatuses :
                /\ faults + SmokeFault(status) <= MaxFaults
                /\ faults' = faults + SmokeFault(status)
                /\ api_results' = Append(api_results,
                    [endpoint |-> e.endpoint, method |-> e.method,
                     status |-> IF status < 500 THEN "Success" ELSE "Failed",
                     status_code |-> ToString(status), error |-> Absent])
          /\ pc' = IF Len(api_results) + 1 = Len(endpoints) THEN "report" ELSE "verify"
          /\ UNCHANGED <<stage, caller, attempted, result, failedStage>>
       \/ \* requests.RequestException
          /\ faults < MaxFaults
          /\ faults' = faults + 1
          /\ api_results' = Append(api_results,
                    [endpoint |-> e.endpoint, method |-> e.method, status |-> "Failed",
                     status_code |-> Absent, error |-> "RequestException"])
          /\ pc' = IF Len(api_results) + 1 = Len(endpoints) THEN "report" ELSE "verify"
          /\ UNCHANGED <<stage, caller, attempted, result, failedStage>>
       \/ \* any other exception leaves the function
          /\ faults < MaxFaults
          /\ faults' = faults + 1
          /\ Raise(<<"unexpected error in request">>)
          /\ UNCHANGED api_results
    /\ UNCHANGED <<retryVars, retryHist, procVars, pollVars, netVars, fixVars,
                   report_file, cleanupVars>>

-----------------------------------------------------------------------------
(* The report *)

ReportRow(r) == <<"|", r.endpoint, "|", r.method, "|", r.status, "|", r.status_code, "|">>

_generate_demo_report(results) ==
    << <<"# Web Application Demonstration Report">>,
       <<"## API Endpoint Status">>,
       <<"| Endpoint | Method | Status | Status Code |">>,
       <<"|----------|---------|---------|-------------|">> >>
    \o [i \in 1..Len(results) |-> ReportRow(results[i])]
    \o << <<"## Application URLs">>,
          <<"- Frontend:">> \o frontend_url,
          <<"- Backend API:">> \o backend_url,
          <<"## Next Steps">>,
          <<"1. Open the frontend URL in your browser">>,
          <<"2. Try registering a new user">>,
          <<"3. Test the login functionality">>,
          <<"4. Explore the application features">> >>

Bullets(entries) == [i \in 1..Len(entries) |-> <<"-">> \o entries[i]]

\* FixSummary writing the note whatever the ledger holds
FixSummaryAlwaysNote ==
    << <<"## Fix Attempts Summary">>,
       <<"No fixes were needed during demonstration.">> >>

\* the "Fix Attempts Summary" section written after the report
FixSummary ==
    << <<"## Fix Attempts Summary">> >>
    \o IF has_fix_attempts
       THEN << <<"### Backend Fixes">> >> \o Bullets(_fix_attempts.backend)
            \o << <<"### Frontend Fixes">> >> \o Bullets(_fix_attempts.frontend)
            \o << <<"### Dependencies Fixes">> >> \o Bullets(_fix_attempts.dependencies)
       ELSE << <<"No fixes were needed during demonstration.">> >>

\* report = self._generate_demo_report(api_results); the file is written
WriteReport ==
    /\ pc = "report"
    /\ \/ /\ report_file' = _generate_demo_report(api_results) \o FixSummary
          /\ pc' = "browser"
          /\ attempted' = attempted \cup {"report"}
          /\ UNCHANGED <<stage, caller, result, failedStage, faults>>
       \/ \* open() or write() raises
          /\ faults < MaxFaults
          /\ faults' = faults + 1
          /\ Raise(<<"[Errno 13]", "Permission denied">>)
          /\ UNCHANGED report_file
    /\ UNCHANGED <<retryVars, retryHist, procVars, pollVars, netVars, fixVars,
                   api_results, cleanupVars>>

\* webbrowser.open(self.frontend_url); return True, "...", report
OpenBrowser ==
    /\ pc = "browser"
    /\ \/ /\ pc' = "finally"
          /\ result' = [returned |-> FALSE, success |-> TRUE,
                        message |-> <<"Demonstration completed successfully">>,
                        report_is_none |-> FALSE,
                        report |-> _generate_demo_report(api_results)]
          /\ UNCHANGED <<stage, caller, attempted, failedStage, faults>>
       \/ /\ faults < MaxFaults
          /\ faults' = faults + 1
          /\ Raise(<<"could not locate runnable browser">>)
    /\ UNCHANGED <<retryVars, retryHist, procVars, pollVars, netVars, fixVars,
                   api_results, report_file, cleanupVars>>

-----------------------------------------------------------------------------
(* _cleanup, run by demonstrate's finally clause *)

\* Terminate acting on a process whatever its status
TerminateAlways(ps, p) == [ps EXCEPT ![p] = "terminated"]

\* process.terminate(): a signal to a running process, nothing otherwise
Terminate(ps, p) == IF ps[p] = "running" THEN [ps EXCEPT ![p] = "terminated"] ELSE ps

\* the handles _cleanup terminates, in its order
CleanupHandles ==
    (IF backend_process # NoProcess THEN <<backend_process>> ELSE <<>>)
    \o (IF frontend_process # NoProcess THEN <<frontend_process>> ELSE <<>>)

\* terminate the first n handles
TerminateFirst(ps, handles, n) ==
    IF n = 0 THEN ps
    ELSE IF n = 1 THEN Terminate(ps, handles[1])
    ELSE Terminate(Terminate(ps, handles[1]), handles[2])

\* the component of the handle number `failing` of CleanupHandles
FailedComponent(failing) ==
    IF failing = 0 THEN "none"
    ELSE IF failing = 1 /\ backend_process # NoProcess THEN "backend"
    ELSE "frontend"

\* psutil raises (the process is gone, a child vanished) while the handle
\* number `failing` is being terminated; 0: nothing raises
_cleanup ==
    /\ pc = "finally"
    /\ \E failing \in 0..Len(CleanupHandles) :
          /\ procs' = TerminateFirst(procs, CleanupHandles,
                           IF failing = 0 THEN Len(CleanupHandles) ELSE failing - 1)
          /\ cleanupRaised' = (failing # 0)
          /\ cleanupFailed' = FailedComponent(failing)
    /\ cleanupCount' = cleanupCount + 1
    /\ pc' = "done"
    /\ result' = [result EXCEPT !.returned = TRUE]
    /\ UNCHANGED <<backend_process, frontend_process>>
    /\ UNCHANGED <<stage, caller, attempted, failedStage>>
    /\ UNCHANGED <<retryVars, retryHist, pollVars, netVars, fixVars,
                   api_results, report_file, faults>>

-----------------------------------------------------------------------------

demonstrate == WriteReport \/ OpenBrowser

Next ==
    \/ _install_dependencies
    \/ _start_backend
    \/ _start_frontend
    \/ ProcessExits
    \/ _retry_with_fixes
    \/ _verify_api_endpoints
    \/ demonstrate
    \/ _cleanup

Spec == Init /\ [][Next]_vars

\* _cleanup called again on the demonstrator after demonstrate has returned
CleanupAgain ==
    /\ pc = "done"
    /\ cleanupCount < MaxCleanupCalls
    /\ \E failing \in 0..Len(CleanupHandles) :
          /\ procs' = TerminateFirst(procs, CleanupHandles,
                           IF failing = 0 THEN Len(CleanupHandles) ELSE failing - 1)
          /\ cleanupRaised' = (failing # 0)
          /\ cleanupFailed' = FailedComponent(failing)
    /\ cleanupCount' = cleanupCount + 1
    /\ UNCHANGED <<backend_process, frontend_process>>
    /\ UNCHANGED <<ctrlVars, retryVars, retryHist, pollVars, netVars, fixVars,
                   api_results, report_file, faults>>

CleanupNext == Next \/ CleanupAgain

\* demonstrate, and then further calls of _cleanup
CleanupSpec == Init /\ [][CleanupNext]_vars

\* Spec with every step that can be taken taken in the end: each statement of
\* the program terminates
FairSpec == Spec /\ WF_vars(Next)

-----------------------------------------------------------------------------
(* Properties *)

AllDistinct(seq) == \A i, j \in 1..Len(seq) : i # j => seq[i] # seq[j]

Returned == pc = "done"

\* a _retry_with_fixes call is running or has returned failure
RetryRunningOrFailed == pc = "retry" \/ failedStage = stage

\* the _retry_with_fixes call of the current stage has returned failure
RetryFailed == failedStage = stage /\ failedStage # "none"

\* C1: one call of _retry_with_fixes executes its loop body at most
\* max_attempts times, and so invokes the remediator and re-invokes the
\* operation at most max_attempts times.
C1_LoopBodyBounded ==
    /\ iterations <= max_attempts
    /\ Len(fixLog) <= max_attempts
    /\ funcCalls <= max_attempts

\* C2: with max_attempts = 5, when every failed call of the operation returned
\* an error string it had not returned before, _retry_with_fixes stops after
\* exactly 5 iterations and returns failure.
C2_ExactlyFiveAttempts ==
    (max_attempts = 5 /\ RetryRunningOrFailed /\ AllDistinct(opErrors))
        => /\ iterations <= 5
           /\ RetryFailed => iterations = 5

\* C3: within one _retry_with_fixes call the remediator is invoked at most once
\* with each error string, and an iteration that finds its error in errors_seen
\* only increments the attempt counter (no remediator call, no func call, no
\* change of the ports, the URLs or the ledger).
C3_NoRepeatedFix ==
    /\ [](AllDistinct(fixLog) /\ \A i \in 1..Len(fixLog) : fixLog[i] \in errors_seen)
    /\ [][(pc = "retry" /\ attempt <= max_attempts /\ last_error \in errors_seen)
            => /\ attempt' = attempt + 1
               /\ pc' = "retry"
               /\ UNCHANGED <<fixLog, funcCalls, last_error, errors_seen>>
               /\ UNCHANGED <<netVars, fixVars>>]_vars

\* the operation failed twice with the same string and the second occurrence
\* was met by the loop
C3_Witness ==
    /\ pc = "retry"
    /\ funcCalls >= 1
    /\ ~AllDistinct(opErrors)
    /\ iterations > Len(fixLog)

\* C4: when demonstrate returns, every process launched during the run has
\* been terminated (no process is left running).  Stated for the runs in which
\* no termination call of _cleanup raised: the claim fails even there.
C4_NoProcessLeftRunning ==
    (Returned /\ ~cleanupRaised) => \A p \in 1..Len(procs) : procs[p] # "running"

\* C5: _cleanup is executed exactly once on every exit path of demonstrate,
\* after the last stage that ran: it has not run while demonstrate is at work,
\* and demonstrate has returned exactly when it has run once.
C5_CleanupExactlyOnce ==
    /\ cleanupCount \in {0, 1}
    /\ Returned <=> cleanupCount = 1
    /\ result.returned <=> Returned
    /\ ~Returned => ENABLED Next

\* an unexpected exception of a stage ended the run
C5_Witness ==
    /\ Returned
    /\ cleanupCount = 1
    /\ failedStage = "none"
    /\ ~result.success
    /\ SubSeq(result.message, 1, 1) = <<"Demonstration failed:">>

\* C6: after a permanent failure of the backend stage neither the frontend
\* start nor the smoke test is attempted, after one of the frontend stage the
\* smoke test is not attempted, and cleanup has run when demonstrate returns.
C6_FailedStageStopsProgress ==
    /\ failedStage = "backend"
          => /\ attempted \cap {"frontend", "verify", "report"} = {}
             /\ frontend_process = NoProcess
             /\ api_results = <<>>
    /\ failedStage = "frontend"
          => /\ attempted \cap {"verify", "report"} = {}
             /\ api_results = <<>>
    /\ failedStage # "none" => pc \in {"finally", "done"}
    /\ (failedStage # "none" /\ Returned) => cleanupCount = 1

C6_Witness ==
    /\ Returned
    /\ failedStage = "backend"
    /\ backend_process # NoProcess

\* C7 as claimed: when the backend or frontend stage ends in permanent failure,
\* the report demonstrate returns is not absent.
C7_ReportReturnedOnFailure ==
    (Returned /\ failedStage \in {"backend", "frontend"}) => ~result.report_is_none

\* C7 amended: when the backend or frontend stage ends in permanent failure,
\* demonstrate returns (False, message, None): the report is absent and no
\* report file is written; the message names the failed component and carries
\* the last error.
C7_FailureMessageWithoutReport ==
    failedStage \in {"backend", "frontend"}
        => /\ ~result.success
           /\ result.report_is_none
           /\ report_file = <<>>
           /\ result.message = <<"Failed to fix", failedStage, "after", "5",
                                 "attempts. Last error:">> \o last_error

C7_Witness ==
    /\ Returned
    /\ failedStage = "frontend"

\* C8: a start attempt reports ready at the first GET answered with status 200
\* and probes no further, and reports ready on no other outcome.
C8_ReadyOnlyOnFirst200 ==
    /\ attemptResult = "ready" <=> lastOutcome = "200"
    /\ lastOutcome = "200" => pc # "poll"
    /\ pc = "poll" => attemptResult = "pending"
    /\ (stage = "frontend" /\ caller = "demonstrate" /\ pc = "start")
          => attemptResult = "ready"
    /\ "verify" \in attempted => attemptResult = "ready"

\* the backend became ready
C8_Witness ==
    /\ attemptResult = "ready"
    /\ lastOutcome = "200"
    /\ stage = "frontend"
    /\ pc = "start"

\* C9: no start attempt makes more probes than its cap (30 for the backend, 60
\* for the frontend); an attempt reports the timeout only after exactly that
\* many probes, and after that many probes without a 200 it probes no more and
\* reports the timeout.
C9_TimeoutAfterExactlyCap ==
    /\ [](pc = "poll" => probes <= IF stage = "backend" THEN 30 ELSE 60)
    /\ [][(attemptResult' = "timeout" /\ attemptResult # "timeout")
            => (pc = "poll" /\ probes = IF stage = "backend" THEN 30 ELSE 60)]_vars
    /\ [][(pc = "poll" /\ probes = IF stage = "backend" THEN 30 ELSE 60)
            => (attemptResult' = "timeout" /\ pc' = "retry"
                /\ last_error' = TimeoutMessage(stage))]_vars

\* sixty probes of the frontend went unanswered
C9_Witness ==
    /\ pc = "poll"
    /\ stage = "frontend"
    /\ probes = 60
    /\ lastOutcome \in {"404", "neterr"}

\* C10: in the run whose only failure is a backend start failing with
\* "No module named 'flask'", once the retried start has succeeded the backend
\* stage has succeeded after exactly one remediator invocation and one retried
\* start, and the ledger holds the one backend entry "Installed Flask" and no
\* frontend or dependencies entry.
FlaskStartError == <<"Failed to start backend:", "No module named", "'", "flask", "'">>

FlaskScenario ==
    /\ faults = 1
    /\ opErrors = <<FlaskStartError>>
    /\ funcCalls >= 1
    /\ attemptResult = "ready"
    /\ stage = "frontend"

FrontendAddrInUseError == <<"Failed to start frontend:", "[Errno 98]", "Address already in use">>

FrontendEADDRINUSEError == <<"Failed to start frontend:", "EADDRINUSE", ":", "port in use">>

\* C11 as claimed: when the first frontend start fails with an error that says
\* "Address already in use" while the frontend port is 3000, the remediator
\* moves the frontend port to 3001 and the frontend URL to
\* http://localhost:3001.
C11_AddressAlreadyInUseMovesPort ==
    (stage = "frontend" /\ fixLog = <<FrontendAddrInUseError>>)
        => /\ frontend_port = 3001
           /\ frontend_url = <<"http://localhost:", "3001">>

\* the first frontend start failed with an EADDRINUSE error (port 3000) and
\* the remediator has been called with it, and with no later error
EADDRINUSEScenario == stage = "frontend" /\ fixLog = <<FrontendEADDRINUSEError>>

\* C11 amended: when the first frontend start fails with an error holding
\* "EADDRINUSE" while the frontend port is 3000, the remediator moves the port
\* to 3001 and the URL to http://localhost:3001 and calls the start function
\* again, whose probes request http://localhost:3001; when such a probe is
\* answered with 200 the stage succeeds and the report shows the frontend URL
\* with port 3001.  An error that says "Address already in use" without
\* "EADDRINUSE" is not recognised for the frontend: the port stays 3000.
C11_EADDRINUSEMovesPort ==
    /\ EADDRINUSEScenario
          => /\ frontend_port = 3001
             /\ frontend_url = <<"http://localhost:", "3001">>
             /\ lastFix = [called |-> TRUE, fixed |-> TRUE,
                           message |-> <<"Changed frontend port to", "3001">>]
             /\ _fix_attempts.frontend = << <<"Changed frontend port to", "3001">> >>
             /\ funcCalls = 1
             /\ pc # "start" => probeTarget \in {<<>>, <<"http://localhost:", "3001">>}
             /\ (pc # "start" /\ attemptResult = "ready")
                   => /\ probeTarget = <<"http://localhost:", "3001">>
                      /\ failedStage = "none"
                      /\ "verify" \in attempted
                      /\ retryResult = [returned |-> TRUE, success |-> TRUE,
                                        message |-> <<"Frontend started successfully">>]
             /\ report_file # <<>>
                   => \E i \in 1..Len(report_file) :
                         report_file[i] = <<"- Frontend:", "http://localhost:", "3001">>
             /\ result.success
                   => \E i \in 1..Len(result.report) :
                         result.report[i] = <<"- Frontend:", "http://localhost:", "3001">>
    /\ (stage = "frontend" /\ fixLog = <<FrontendAddrInUseError>>)
          => /\ frontend_port = 3000
             /\ frontend_url = <<"http://localhost:", "3000">>
             /\ lastFix = [called |-> TRUE, fixed |-> FALSE,
                           message |-> <<"Unable to automatically fix this frontend error">>]
             /\ funcCalls = 0

\* the run ended in success after the EADDRINUSE fix, the report written
C11_Witness ==
    /\ EADDRINUSEScenario
    /\ Returned
    /\ result.success
    /\ report_file # <<>>
    /\ probeTarget = <<"http://localhost:", "3001">>

\* C12: every call of _cleanup returns normally, whether the demonstrator
\* holds zero, one or two processes and whether they run or have exited: it
\* raises nothing into its caller and can be called again; it changes no field
\* of the demonstrator (handles, ports, URLs, ledger, results); it signals only
\* running processes whose handle is held; and a call that follows a call in
\* which no termination raised changes nothing at all.
C12_CleanupIdempotent ==
    /\ [][cleanupCount' # cleanupCount
            => /\ cleanupCount' = cleanupCount + 1
               /\ pc \in {"finally", "done"}
               /\ pc' = "done"
               /\ result' = [result EXCEPT !.returned = TRUE]
               /\ UNCHANGED <<backend_process, frontend_process, netVars, fixVars,
                              api_results, report_file>>
               /\ Len(procs') = Len(procs)
               /\ \A p \in 1..Len(procs) :
                     procs'[p] # procs[p]
                        => /\ procs[p] = "running"
                           /\ procs'[p] = "terminated"
                           /\ p \in {backend_process, frontend_process}
               /\ (cleanupCount >= 1 /\ ~cleanupRaised) => procs' = procs]_vars
    /\ []((pc = "done" /\ cleanupCount < MaxCleanupCalls) => ENABLED CleanupAgain)

\* _cleanup was called a second time on a demonstrator that holds two
\* processes, one of which had exited by itself
C12_Witness ==
    /\ cleanupCount >= 2
    /\ backend_process # NoProcess
    /\ frontend_process # NoProcess
    /\ \E p \in {backend_process, frontend_process} : procs[p] = "exited"

\* raw error strings: every message a stage function of the model can return,
\* the bare exception texts, and texts that match nothing
RawErrors ==
    {<<>>, <<"Segmentation fault">>, <<"NPM", "ERR!", "python", "not found">>,
     <<"Backend failed to start within timeout">>,
     <<"Frontend failed to start within timeout">>}
    \cup BackendExceptions \cup FrontendExceptions \cup InstallExceptions
    \cup {<<"Failed to start backend:">> \o e : e \in BackendExceptions}
    \cup {<<"Failed to start frontend:">> \o e : e \in FrontendExceptions}
    \cup {<<"Failed to install dependencies:">> \o e : e \in InstallExceptions}

\* the loop of _retry_with_fixes is about to call the remediator
RemediatorCalled == pc = "retry" /\ attempt <= max_attempts /\ last_error \notin errors_seen

\* the error holds one of the signatures of the component's table
MatchesSignature(error, component) ==
    CASE component = "backend" ->
            \/ Contains(<<"ModuleNotFoundError">>, error)
            \/ Contains(<<"Address already in use">>, error)
            \/ Contains(<<"No module named", "'", "flask", "'">>, error)
            \/ Contains(<<"SQLAlchemy">>, error)
      [] component = "frontend" ->
            \/ Contains(<<"ENOENT">>, error) /\ Contains(<<"package.json">>, error)
            \/ Contains(<<"react-scripts">>, error)
            \/ Contains(<<"EADDRINUSE">>, error)
      [] component = "dependencies" ->
            \/ Contains(<<"npm">>, lower(error))
            \/ Contains(<<"python">>, lower(error))
            \/ Contains(<<"pip">>, lower(error))

UnableMessage(component) ==
    CASE component = "backend" -> <<"Unable to automatically fix this backend error">>
      [] component = "frontend" -> <<"Unable to automatically fix this frontend error">>
      [] component = "dependencies" ->
            <<"Unable to automatically fix this dependency error">>

FixFailedPrefixes == {"Backend fix failed:", "Frontend fix failed:", "Dependency fix failed:"}

\* C13: wherever the loop calls the remediator, for every raw error string
\* (not the current error alone) and each of the three components, _analyze_and_fix_error returns a pair (fixed, message); what it
\* selects depends on the string and the component only (whether the fix's
\* commands succeed decides between the fix and a "fix failed" result, nothing
\* else); it reports fixed only for a string holding a signature of the
\* component; and for a string holding none it returns the not-fixed result
\* and leaves the ports, the URLs and the ledger's entries as they are.  The
\* loop of _retry_with_fixes then counts one attempt.
C13_ClassificationTotal ==
    /\ [](RemediatorCalled => \A error \in RawErrors, component \in Components :
            LET rT == _analyze_and_fix_error(error, component, TRUE)
                rF == _analyze_and_fix_error(error, component, FALSE)
            IN /\ \A r \in {rT, rF} :
                     /\ r.fixed \in BOOLEAN
                     /\ Len(r.message) > 0
                     /\ r.fixed => MatchesSignature(error, component)
               /\ rF # rT => /\ rT.fixed
                             /\ ~rF.fixed
                             /\ rF.message[1] \in FixFailedPrefixes
               /\ ~MatchesSignature(error, component)
                     => /\ rT = rF
                        /\ ~rT.fixed
                        /\ rT.message = UnableMessage(component)
                        /\ rT.backend_port = backend_port
                        /\ rT.backend_url = backend_url
                        /\ rT.frontend_port = frontend_port
                        /\ rT.frontend_url = frontend_url
                        /\ rT.entries = _fix_attempts)
    /\ [][(pc = "retry" /\ Len(fixLog') = Len(fixLog) + 1
              /\ ~MatchesSignature(last_error, stage))
            => /\ lastFix' = [called |-> TRUE, fixed |-> FALSE,
                              message |-> UnableMessage(stage)]
               /\ UNCHANGED <<netVars, _fix_attempts, funcCalls, pc>>
               /\ attempt' = attempt + 1]_vars

\* the remediator was called with an error that holds no signature, after a
\* fix had been applied for an earlier error
C13_Witness ==
    /\ pc = "retry"
    /\ lastFix = [called |-> TRUE, fixed |-> FALSE, message |-> UnableMessage(stage)]
    /\ last_error \in errors_seen
    /\ ~MatchesSignature(last_error, stage)
    /\ Len(fixLog) >= 2
    /\ _fix_attempts[stage] # <<>>

\* error strings that hold several signatures of one table
MultiMatchErrors ==
    {<<"Address already in use", ";", "No module named", "'", "flask", "'", ";", "SQLAlchemy">>,
     <<"SQLAlchemy", ":", "No module named", "'", "flask", "'">>,
     <<"EADDRINUSE", ";", "react-scripts", ";", "ENOENT", "package.json">>,
     <<"EADDRINUSE", ";", "react-scripts">>,
     <<"pip", "and", "NPM", "are broken">>}

LedgerSize(ledger) == Len(ledger.backend) + Len(ledger.frontend) + Len(ledger.dependencies)

\* the result of a call that applied the fix `entry` for `component` and
\* nothing else
OneFix(r, component, entry) ==
    /\ r.fixed
    /\ r.message = entry
    /\ r.entries = [_fix_attempts EXCEPT ![component] = Append(@, entry)]

PortsKept(r) ==
    /\ r.backend_port = backend_port
    /\ r.backend_url = backend_url
    /\ r.frontend_port = frontend_port
    /\ r.frontend_url = frontend_url

\* C14: wherever the loop calls the remediator and for every raw error
\* string, the signatures of a component are tested in the order of the code
\* and the first one an error holds decides; a call applies the one action of that
\* signature and appends one ledger entry for it (the commands of the fix
\* succeeding).  Backend: ModuleNotFoundError, "Address already in use",
\* "No module named 'flask'", SQLAlchemy.  Frontend: ENOENT with package.json,
\* react-scripts, EADDRINUSE.  Dependencies: npm, then python or pip.  A
\* backend error holding ModuleNotFoundError and "Address already in use"
\* leaves the backend port unchanged.
C14_FirstMatchWins ==
    /\ [](RemediatorCalled => \A error \in RawErrors \cup MultiMatchErrors :
            LET b == _analyze_and_fix_error(error, "backend", TRUE)
                f == _analyze_and_fix_error(error, "frontend", TRUE)
                d == _analyze_and_fix_error(error, "dependencies", TRUE)
                mnf   == Contains(<<"ModuleNotFoundError">>, error)
                addr  == Contains(<<"Address already in use">>, error)
                flask == Contains(<<"No module named", "'", "flask", "'">>, error)
                sqla  == Contains(<<"SQLAlchemy">>, error)
                pkg   == Contains(<<"ENOENT">>, error) /\ Contains(<<"package.json">>, error)
                rs    == Contains(<<"react-scripts">>, error)
                eaddr == Contains(<<"EADDRINUSE">>, error)
                npm   == Contains(<<"npm">>, lower(error))
                pip   == Contains(<<"python">>, lower(error)) \/ Contains(<<"pip">>, lower(error))
            IN /\ mnf => /\ PortsKept(b)
                         /\ b.fixed => OneFix(b, "backend", <<"Installed missing module:">>
                                                           \o SplitIndex1(error))
                         /\ b.fixed <=> SplitHasIndex1(error)
               /\ (~mnf /\ addr)
                     => /\ OneFix(b, "backend",
                                  <<"Changed backend port to", ToString(backend_port + 1)>>)
                        /\ b.backend_port = backend_port + 1
                        /\ b.frontend_port = frontend_port
               /\ (~mnf /\ ~addr /\ flask)
                     => OneFix(b, "backend", <<"Installed Flask">>) /\ PortsKept(b)
               /\ (~mnf /\ ~addr /\ ~flask /\ sqla)
                     => OneFix(b, "backend", <<"Installed database dependencies">>)
                        /\ PortsKept(b)
               /\ pkg => OneFix(f, "frontend", <<"Created basic package.json">>)
                         /\ PortsKept(f)
               /\ (~pkg /\ rs)
                     => OneFix(f, "frontend", <<"Installed react-scripts">>) /\ PortsKept(f)
               /\ (~pkg /\ ~rs /\ eaddr)
                     => /\ OneFix(f, "frontend",
                                  <<"Changed frontend port to", ToString(frontend_port + 1)>>)
                        /\ f.frontend_port = frontend_port + 1
                        /\ f.backend_port = backend_port
               /\ npm => OneFix(d, "dependencies", <<"Updated npm installation">>)
                         /\ PortsKept(d)
               /\ (~npm /\ pip)
                     => OneFix(d, "dependencies", <<"Updated pip installation">>)
                        /\ PortsKept(d))
    /\ [][/\ LedgerSize(_fix_attempts') \in {LedgerSize(_fix_attempts),
                                              LedgerSize(_fix_attempts) + 1}
          /\ (pc = "retry" /\ stage = "backend" /\ Len(fixLog') = Len(fixLog) + 1
                /\ Contains(<<"ModuleNotFoundError">>, last_error))
                => UNCHANGED netVars]_vars

\* the remediator was called with a backend error that holds
\* ModuleNotFoundError and "Address already in use": the module was installed
\* and the port is the initial one
C14_Witness ==
    /\ stage = "backend"
    /\ fixLog = << <<"Failed to start backend:">> \o ExcModuleAndAddr >>
    /\ lastFix = [called |-> TRUE, fixed |-> TRUE,
                  message |-> <<"Installed missing module:", "jwt">>]
    /\ _fix_attempts.backend = << <<"Installed missing module:", "jwt">> >>
    /\ backend_port = 5000

\* C15: a fix whose own action fails (its command exits with an error, the
\* manifest cannot be written, the error holds no quoted module name) is
\* reported by the remediator as not-fixed with a "... fix failed:" message:
\* no ledger entry is added and no port or URL changes; in the loop the call
\* counts one attempt, the operation is not called, and the loop and
\* demonstrate go on (nothing is raised into them).  Only the port change,
\* which runs no command, is applied when the commands fail.
C15_RemediationFailureContained ==
    /\ [](RemediatorCalled
            => \A error \in RawErrors \cup MultiMatchErrors, component \in Components :
            LET r == _analyze_and_fix_error(error, component, FALSE) IN
            /\ r.fixed => /\ component \in {"backend", "frontend"}
                          /\ ~PortsKept(r)
            /\ (~r.fixed /\ MatchesSignature(error, component))
                  => /\ r.message[1] \in FixFailedPrefixes
                     /\ r.entries = _fix_attempts
                     /\ PortsKept(r))
    /\ [](RemediatorCalled =>
          LET r == _analyze_and_fix_error(ExcModuleNoQuote, "backend", TRUE) IN
            /\ ~r.fixed
            /\ r.message = <<"Backend fix failed:", "IndexError">>
            /\ r.entries = _fix_attempts
            /\ PortsKept(r))
    /\ [][(pc = "retry" /\ Len(fixLog') = Len(fixLog) + 1
              /\ lastFix'.message[1] \in FixFailedPrefixes)
            => /\ ~lastFix'.fixed
               /\ pc' = "retry"
               /\ attempt' = attempt + 1
               /\ UNCHANGED <<_fix_attempts, netVars, funcCalls, last_error, result,
                              retryResult, failedStage>>]_vars

\* pip could not install the module a backend error names, after an earlier
\* fix had been applied
C15_Witness ==
    /\ pc = "retry"
    /\ stage = "backend"
    /\ lastFix = [called |-> TRUE, fixed |-> FALSE,
                  message |-> <<"Backend fix failed:", "CalledProcessError">>]
    /\ Len(fixLog) = 2
    /\ Len(_fix_attempts.backend) = 1
    /\ attempt = 2

\* C16: in every state backend_url is http://localhost:<backend_port> and
\* frontend_url is http://localhost:<frontend_port>; a port changes only in
\* a remediator call for its component that finds the port-conflict
\* signature, by exactly 1, together with its URL; and every probe requests
\* the URL of the port its component has at that moment (the backend's with
\* /health), so after a port fix the new port.
C16_PortUrlInvariant ==
    /\ [](/\ backend_url = <<"http://localhost:", ToString(backend_port)>>
          /\ frontend_url = <<"http://localhost:", ToString(frontend_port)>>
          /\ (pc = "poll" /\ probeTarget # <<>>)
                => probeTarget = IF stage = "backend"
                                 THEN <<"http://localhost:", ToString(backend_port), "/health">>
                                 ELSE <<"http://localhost:", ToString(frontend_port)>>)
    /\ [][/\ backend_port' # backend_port
                => /\ backend_port' = backend_port + 1
                   /\ backend_url' = <<"http://localhost:", ToString(backend_port + 1)>>
                   /\ pc = "retry" /\ stage = "backend"
                   /\ Contains(<<"Address already in use">>, last_error)
                   /\ lastFix'.message = <<"Changed backend port to",
                                           ToString(backend_port + 1)>>
                   /\ UNCHANGED <<frontend_port, frontend_url>>
          /\ frontend_port' # frontend_port
                => /\ frontend_port' = frontend_port + 1
                   /\ frontend_url' = <<"http://localhost:", ToString(frontend_port + 1)>>
                   /\ pc = "retry" /\ stage = "frontend"
                   /\ Contains(<<"EADDRINUSE">>, last_error)
                   /\ lastFix'.message = <<"Changed frontend port to",
                                           ToString(frontend_port + 1)>>
                   /\ UNCHANGED <<backend_port, backend_url>>
          /\ (pc = "poll" /\ probeTarget' # probeTarget)
                => probeTarget' = IF stage = "backend"
                                  THEN <<"http://localhost:", ToString(backend_port), "/health">>
                                  ELSE <<"http://localhost:", ToString(frontend_port)>>]_vars

\* both ports were moved and the frontend is probed at its new port
C16_Witness ==
    /\ backend_port = 5001
    /\ frontend_port = 3001
    /\ pc = "poll"
    /\ probeTarget = <<"http://localhost:", "3001">>

\* the latest start attempt ended before its first probe: Popen raised
SpawnFailed == attemptResult = "error" /\ lastOutcome = "none"

\* C17 as claimed: after a start attempt whose process could not be created
\* the stage is over (demonstrate is returning): the error is not handed to
\* _retry_with_fixes and the launch is not attempted again.
C17_SpawnErrorFatal == SpawnFailed => pc \in {"finally", "done"}

\* C17 amended: a start attempt whose process cannot be created launches
\* nothing and returns (False, "Failed to start <component>: <error>") like
\* every other failed start; the message is handed to _retry_with_fixes, whose
\* remediator is called with it; the launch is attempted again exactly when
\* the remediator applied a fix for it, and otherwise the stage fails after
\* the attempts are used up, with the spawn error as the last error of the
\* failure message.
C17_SpawnErrorRetried ==
    /\ [][(pc = "start" /\ attemptResult' = "error")
            => /\ UNCHANGED <<procVars, result, failedStage>>
               /\ pc' = "retry"
               /\ caller' = "retry"
               /\ \E e \in BackendExceptions \cup FrontendExceptions :
                     last_error' = <<IF stage = "backend" THEN "Failed to start backend:"
                                     ELSE "Failed to start frontend:">> \o e
               /\ last_error' = opErrors'[Len(opErrors')]]_vars
    /\ [][(SpawnFailed /\ pc = "retry")
            => /\ pc' = "start" <=> (lastFix'.fixed /\ Len(fixLog') = Len(fixLog) + 1
                                       /\ fixLog'[Len(fixLog')] = last_error)
               /\ pc' \in {"retry", "start", "finally"}
               /\ pc' = "finally" => /\ attempt > 5
                                      /\ failedStage' = stage
                                      /\ result'.message =
                                            <<"Failed to fix", stage, "after", "5",
                                              "attempts. Last error:">> \o last_error]_vars

\* the spawn error of a frontend launch was handed to the remediator, which
\* applied a fix, and the launch is about to be attempted again
C17_Witness ==
    /\ SpawnFailed
    /\ stage = "frontend"
    /\ frontend_process = NoProcess
    /\ pc = "start"
    /\ caller = "retry"
    /\ lastFix.fixed
    /\ fixLog = <<last_error>>

\* the four endpoints of the smoke test, in the order of the requests
SmokeEndpoints == << <<"/api/health", "GET">>, <<"/api/auth/register", "POST">>,
                     <<"/api/auth/login", "POST">>, <<"/api/users/profile", "GET">> >>

BackendProbed == probeTarget # <<>> /\ probeTarget[Len(probeTarget)] = "/health"

\* C19: the frontend stage begins only at the moment a backend start attempt
\* is answered with 200; a frontend process is launched, and a frontend URL
\* probed, only in the frontend stage; after a permanent failure of the
\* backend stage no frontend process exists; and once the frontend stage has
\* begun no backend process is launched and no backend URL is probed.
C19_StagesNeverOverlap ==
    /\ [](/\ frontend_process # NoProcess
                => "frontend" \in attempted /\ backend_process # NoProcess
          /\ failedStage \in {"dependencies", "backend"} => frontend_process = NoProcess
          /\ (pc = "poll" /\ ~BackendProbed /\ probeTarget # <<>>)
                => "frontend" \in attempted /\ frontend_process # NoProcess
          /\ (pc = "poll" /\ BackendProbed)
                => "frontend" \notin attempted /\ frontend_process = NoProcess)
    /\ [][/\ ("frontend" \in attempted' /\ "frontend" \notin attempted)
                => /\ pc = "poll"
                   /\ frontend_process = NoProcess
                   /\ attemptResult' = "ready"
                   /\ lastOutcome' = "200"
                   /\ probeTarget' = <<"http://localhost:", ToString(backend_port), "/health">>
          /\ frontend_process' # frontend_process
                => /\ "frontend" \in attempted
                   /\ pc = "start" /\ pc' = "poll"
                   /\ UNCHANGED backend_process
          /\ backend_process' # backend_process
                => /\ "frontend" \notin attempted
                   /\ frontend_process = NoProcess
                   /\ UNCHANGED frontend_process
          /\ (pc = "poll" /\ probeTarget' # probeTarget)
                => (BackendProbed' <=> "frontend" \notin attempted)]_vars

\* the frontend is being probed in a retried start, the backend running
C19_Witness ==
    /\ pc = "poll"
    /\ "frontend" \in attempted
    /\ caller = "retry"
    /\ probes > 0
    /\ probeTarget = frontend_url
    /\ backend_process # NoProcess
    /\ procs[backend_process] = "running"
    /\ frontend_process # NoProcess

\* what the stage function returns on success
SuccessMessage(component) ==
    CASE component = "dependencies" -> <<"Dependencies installed successfully">>
      [] component = "backend" -> <<"Backend started successfully">>
      [] component = "frontend" -> <<"Frontend started successfully">>

\* C20: in _retry_with_fixes an iteration whose remediator call reports a fix
\* calls the operation at once, in that same iteration and with the attempt
\* counter as it is; when that call succeeds _retry_with_fixes returns
\* (True, the operation's message) and the stage has succeeded; when it fails
\* the message it returned is the current error, which the next iteration
\* examines.
C20_AppliedRetriesAtOnce ==
    /\ [][(pc = "retry" /\ Len(fixLog') = Len(fixLog) + 1 /\ lastFix'.fixed)
            => /\ pc' = IF stage = "dependencies" THEN "install" ELSE "start"
               /\ funcCalls' = funcCalls + 1
               /\ iterations' = iterations + 1
               /\ attempt' = attempt
               /\ UNCHANGED <<caller, stage, last_error, retryResult>>]_vars
    /\ [][(caller = "retry" /\ caller' = "demonstrate")
            => /\ pc \in {"install", "poll"}
               /\ retryResult' = [returned |-> TRUE, success |-> TRUE,
                                  message |-> SuccessMessage(stage)]
               /\ failedStage' = "none"
               /\ pc' \in {"start", "verify"}
               /\ UNCHANGED <<attempt, iterations, fixLog, funcCalls, last_error>>]_vars
    /\ [][(caller = "retry" /\ pc \in {"install", "start", "poll"} /\ pc' = "retry")
            => /\ Len(opErrors') = Len(opErrors) + 1
               /\ last_error' = opErrors'[Len(opErrors')]
               /\ ~retryResult'.returned
               /\ UNCHANGED <<attempt, iterations, fixLog, funcCalls, errors_seen>>]_vars
    /\ [][(pc = "retry" /\ iterations' = iterations + 1)
            => IF last_error \in errors_seen
               THEN UNCHANGED <<fixLog, lastFix>>
               ELSE fixLog' = Append(fixLog, last_error) /\ lastFix'.called]_vars
    /\ [](caller = "retry" /\ pc \in {"install", "start", "poll"}
             => /\ lastFix.fixed
                /\ funcCalls >= 1
                /\ fixLog[Len(fixLog)] = last_error)

\* a fix was applied and the operation, called again, failed with another
\* error, which is now the current one; the attempt counter has not moved
C20_Witness ==
    /\ pc = "retry"
    /\ funcCalls = 1
    /\ iterations = 1
    /\ attempt = 1
    /\ Len(opErrors) = 2
    /\ opErrors[2] # opErrors[1]
    /\ last_error = opErrors[2]
    /\ last_error \notin errors_seen

\* C21: in _retry_with_fixes an iteration whose remediator call reports
\* not-fixed (no signature matched, or the fix itself failed) does not call
\* the operation and increments the attempt counter by one; the current error
\* stays and the loop goes on.
C21_NotFixedCountsAttempt ==
    [][(pc = "retry" /\ Len(fixLog') = Len(fixLog) + 1 /\ ~lastFix'.fixed)
         => /\ attempt' = attempt + 1
            /\ iterations' = iterations + 1
            /\ pc' = "retry"
            /\ UNCHANGED <<funcCalls, last_error, opErrors, procVars, caller, stage,
                           retryResult, result>>]_vars

\* the remediator reported not-fixed in the first iteration of a retry
\* session of the backend stage, whose process runs
C21_Witness ==
    /\ pc = "retry"
    /\ stage = "backend"
    /\ lastFix.called
    /\ ~lastFix.fixed
    /\ iterations = 1
    /\ attempt = 2
    /\ funcCalls = 0
    /\ backend_process # NoProcess

\* C22: a _retry_with_fixes call that fails, after the attempt budget ran out
\* with fresh errors or after a repeated error used it up, makes its stage
\* fail (success = False), and the failure message ends with the last error:
\* the one returned by the most recent failed call of the operation, which is
\* the initial error when the operation was never called again.
C22_FailureCarriesLastError ==
    /\ [](RetryFailed
            => /\ retryResult = [returned |-> TRUE, success |-> FALSE,
                                 message |-> <<"Failed to fix", stage, "after", "5",
                                               "attempts. Last error:">>
                                             \o opErrors[Len(opErrors)]]
               /\ ~result.success
               /\ result.message = retryResult.message
               /\ Len(opErrors) = funcCalls + 1
               /\ attempt > max_attempts)
    /\ [][(pc = "retry" /\ pc' # "retry" /\ ~retryResult'.success /\ pc' # FuncPc)
            => (retryResult'.returned /\ failedStage' = stage /\ pc' = "finally")]_vars

\* the budget ran out after the operation was called again and failed with
\* another error than the initial one
C22_Witness ==
    /\ RetryFailed
    /\ Len(opErrors) >= 2
    /\ opErrors[Len(opErrors)] # opErrors[1]
    /\ iterations > Len(fixLog)

\* C23: the fix ledger is append-only over the whole run: every step leaves
\* each component's list as it was or appends one entry to it; a remediator
\* call that applied a fix appends exactly one entry, the description it
\* returns, to the list of its own component and to no other; a call that
\* reports not-fixed appends nothing.
C23_LedgerAppendOnly ==
    /\ [][\A c \in {"backend", "frontend", "dependencies"} :
             \/ _fix_attempts'[c] = _fix_attempts[c]
             \/ /\ pc = "retry"
                /\ c = stage
                /\ Len(fixLog') = Len(fixLog) + 1
                /\ lastFix'.fixed
                /\ _fix_attempts'[c] = Append(_fix_attempts[c], lastFix'.message)]_vars
    /\ [][(pc = "retry" /\ Len(fixLog') = Len(fixLog) + 1)
            => IF lastFix'.fixed
               THEN /\ _fix_attempts'[stage] = Append(_fix_attempts[stage], lastFix'.message)
                    /\ LedgerSize(_fix_attempts') = LedgerSize(_fix_attempts) + 1
               ELSE _fix_attempts' = _fix_attempts]_vars

\* two fixes were applied for the backend, the second after the first was
\* in the ledger
C23_Witness ==
    /\ Len(_fix_attempts.backend) = 2
    /\ lastFix.fixed
    /\ lastFix.message = _fix_attempts.backend[2]
    /\ _fix_attempts.frontend = <<>>

\* C24: in the polling loop of a start stage every probe attempt but the first
\* is preceded by the 1 second wait, whether the attempt before it failed with
\* a network error or was answered with a status other than 200.
C24_WaitBetweenProbes ==
    [][(pc = "poll" /\ 0 < probes /\ probes < ProbeCap(stage)) => slept]_vars

\* the lines of a report file that follow its "## Fix Attempts Summary" line
SummaryLines(file) ==
    LET i == CHOOSE j \in 1..Len(file) : file[j] = <<"## Fix Attempts Summary">>
    IN SubSeq(file, i + 1, Len(file))

\* C25: whenever demo_report.md is written, its fix summary is the note "No
\* fixes were needed during demonstration." exactly when no fix was applied
\* during the run; otherwise it lists the applied fixes under their component,
\* in the order they were applied.  A run in which a remediator was invoked
\* writes a report only if some fix was applied, so component subsections
\* never appear without an applied fix.
C25_FixSummaryMatchesLedger ==
    report_file # <<>>
        => /\ \E j \in 1..Len(report_file) : report_file[j] = <<"## Fix Attempts Summary">>
           /\ SummaryLines(report_file) = << <<"No fixes were needed during demonstration.">> >>
                 <=> LedgerSize(_fix_attempts) = 0
           /\ LedgerSize(_fix_attempts) > 0
                 => SummaryLines(report_file) =
                       << <<"### Backend Fixes">> >>
                       \o [i \in 1..Len(_fix_attempts.backend) |->
                               <<"-">> \o _fix_attempts.backend[i]]
                       \o << <<"### Frontend Fixes">> >>
                       \o [i \in 1..Len(_fix_attempts.frontend) |->
                               <<"-">> \o _fix_attempts.frontend[i]]
                       \o << <<"### Dependencies Fixes">> >>
                       \o [i \in 1..Len(_fix_attempts.dependencies) |->
                               <<"-">> \o _fix_attempts.dependencies[i]]
           /\ has_fix_attempts <=> LedgerSize(_fix_attempts) > 0

\* a report written after one fix of the backend and one of the frontend
C25_Witness ==
    /\ report_file # <<>>
    /\ Len(_fix_attempts.backend) = 1
    /\ Len(_fix_attempts.frontend) = 1
    /\ <<"### Frontend Fixes">> \in {report_file[j] : j \in 1..Len(report_file)}

\* C26: a failure while _cleanup terminates the backend process does not keep
\* it from terminating the frontend: when a frontend process was launched
\* and the backend's termination raised, the frontend process the object
\* holds has still been sent its termination request when demonstrate returns.
C26_FrontendTerminatedAnyway ==
    (Returned /\ cleanupFailed = "backend" /\ frontend_process # NoProcess)
        => procs[frontend_process] # "running"

\* the error strings the operation has returned in this _retry_with_fixes call
ErrorsReturned == {opErrors[i] : i \in 1..Len(opErrors)}

\* C27: every iteration of the loop of _retry_with_fixes increments attempt
\* or adds an error not seen before to errors_seen, which never shrinks during
\* the call; so a call whose operation can return k different error strings
\* runs at most max_attempts + k iterations, and it always terminates.
C27_IterationsBounded ==
    /\ [](/\ iterations <= (attempt - 1) + Cardinality(errors_seen)
           /\ attempt <= max_attempts + 1
           /\ errors_seen \subseteq ErrorsReturned
           /\ iterations <= max_attempts + Cardinality(ErrorsReturned))
    /\ [][iterations' = iterations + 1
            => \/ attempt' = attempt + 1 /\ errors_seen' = errors_seen
               \/ /\ last_error \notin errors_seen
                  /\ errors_seen' = errors_seen \cup {last_error}
                  /\ attempt' \in {attempt, attempt + 1}]_vars
    /\ [][caller = "retry" => errors_seen \subseteq errors_seen']_vars
    /\ (pc = "retry") ~> (retryResult.returned \/ Returned)

\* a call that went beyond max_attempts iterations and returned failure
C27_Witness ==
    /\ RetryFailed
    /\ retryResult.returned
    /\ iterations = max_attempts + 1
    /\ Cardinality(errors_seen) = 2

\* C28: within one _retry_with_fixes call, once an iteration has not called
\* the operation (the remediator reported not-fixed, or the error was a
\* duplicate), the operation is never called again and the call returns
\* failure; a call returns success only if every remediator invocation of it
\* applied a fix and the call of the operation after the last one succeeded.
C28_NoRecoveryAfterUnfixed ==
    /\ [](iterations > funcCalls
            => /\ pc \in {"retry", "finally", "done"}
               /\ ~retryResult.success
               /\ last_error \in errors_seen
               /\ pc # "retry" => (RetryFailed /\ retryResult.returned))
    /\ [][iterations > funcCalls
            => UNCHANGED <<funcCalls, opErrors, last_error, errors_seen, fixLog>>]_vars
    /\ [](retryResult.success
            => /\ iterations = funcCalls
               /\ Len(fixLog) = funcCalls
               /\ funcCalls >= 1
               /\ lastFix.fixed
               /\ Len(opErrors) = funcCalls)
    /\ (iterations > funcCalls) ~> (RetryFailed /\ retryResult.returned)

\* after one applied fix the operation failed with an error nothing could
\* fix, and the call returned failure without calling it again
C28_Witness ==
    /\ RetryFailed
    /\ retryResult.returned
    /\ funcCalls = 1
    /\ Len(fixLog) = 2
    /\ ~lastFix.fixed

\* C29: demonstrate never raises: an exception of a stage, of the report
\* writing or of the browser opening is returned as (False, "Demonstration
\* failed: ...", None).  It returns success = True only if the dependency,
\* backend and frontend stages all succeeded, the smoke test ran and the
\* report was written, and then the report it returns is not None.
C29_NeverRaises ==
    /\ [](Returned
            => /\ result.returned
               /\ result.success
                     => /\ failedStage = "none"
                        /\ attempted = {"dependencies", "backend", "frontend",
                                        "verify", "report"}
                        /\ stage = "frontend"
                        /\ attemptResult = "ready"
                        /\ Len(api_results) = Len(SmokeEndpoints)
                        /\ report_file # <<>>
                        /\ ~result.report_is_none
                        /\ result.report = _generate_demo_report(api_results)
                        /\ result.message = <<"Demonstration completed successfully">>
               /\ ~result.success
                     => /\ result.report_is_none
                        /\ result.report = <<>>
                        /\ failedStage = "none"
                              => SubSeq(result.message, 1, 1) = <<"Demonstration failed:">>
                        /\ failedStage # "none"
                              => SubSeq(result.message, 1, 2) = <<"Failed to fix", failedStage>>)
    /\ [][(faults' = faults + 1 /\ pc' = "finally")
            => /\ ~result'.success
               /\ result'.report_is_none
               /\ SubSeq(result'.message, 1, 1) = <<"Demonstration failed:">>
               /\ Len(result'.message) > 1]_vars

\* the report was written and opening the browser raised
C29_Witness ==
    /\ Returned
    /\ ~result.success
    /\ failedStage = "none"
    /\ "report" \in attempted
    /\ report_file # <<>>
    /\ result.message = <<"Demonstration failed:", "could not locate runnable browser">>

\* C30: a backend fix never changes frontend_port or frontend_url and a
\* frontend fix never changes backend_port or backend_url; every remediator
\* call other than an applied port-in-use fix (a dependency fix, an install
\* fix, a not-fixed call) leaves the two ports and the two URLs unchanged;
\* and the ports never decrease: backend_port >= 5000, frontend_port >= 3000.
C30_PortFrame ==
    /\ [](backend_port >= InitialBackendPort /\ frontend_port >= InitialFrontendPort)
    /\ [](RemediatorCalled
            => \A error \in RawErrors \cup MultiMatchErrors, installerOk \in BOOLEAN :
                 LET b == _analyze_and_fix_error(error, "backend", installerOk)
                     f == _analyze_and_fix_error(error, "frontend", installerOk)
                     d == _analyze_and_fix_error(error, "dependencies", installerOk)
                 IN /\ b.frontend_port = frontend_port
                    /\ b.frontend_url = frontend_url
                    /\ f.backend_port = backend_port
                    /\ f.backend_url = backend_url
                    /\ PortsKept(d)
                    /\ ~PortsKept(b)
                          => /\ b.fixed
                             /\ b.message = <<"Changed backend port to",
                                              ToString(backend_port + 1)>>
                             /\ b.backend_port > backend_port
                    /\ ~PortsKept(f)
                          => /\ f.fixed
                             /\ f.message = <<"Changed frontend port to",
                                              ToString(frontend_port + 1)>>
                             /\ f.frontend_port > frontend_port)
    /\ [][/\ backend_port' >= backend_port
          /\ frontend_port' >= frontend_port
          /\ stage = "backend" => UNCHANGED <<frontend_port, frontend_url>>
          /\ stage = "frontend" => UNCHANGED <<backend_port, backend_url>>
          /\ stage = "dependencies" => UNCHANGED netVars
          /\ netVars' # netVars
                => /\ pc = "retry"
                   /\ Len(fixLog') = Len(fixLog) + 1
                   /\ lastFix'.fixed
                   /\ lastFix'.message[1] \in {"Changed backend port to",
                                                "Changed frontend port to"}]_vars

\* the backend port was moved, and afterwards a frontend install fix was
\* applied that left both ports where they were
C30_Witness ==
    /\ backend_port = InitialBackendPort + 1
    /\ frontend_port = InitialFrontendPort
    /\ stage = "frontend"
    /\ lastFix.fixed
    /\ lastFix.message = <<"Installed react-scripts">>

====
